---- MODULE Spec2Model ----
(***************************************************************************)
(* Model of app/services/ytdlp_service.py: the retry / error               *)
(* classification loop around the yt-dlp call (_extract_with_retry), and   *)
(* the pure projections of an extraction result (get_best_download_url,    *)
(* the quality catalog of extract_available_qualities, _normalize_platform).*)
(*                                                                         *)
(* Python str values are TLA+ strings; Len, \o and SubSeq are used on them *)
(* as on any sequence of characters.  A missing dict key / Python None is  *)
(* the value None below.                                                   *)
(***************************************************************************)
EXTENDS Integers, Sequences, FiniteSets, TLC

VARIABLES
    pc,         \* position of the worker inside _extract_with_retry
    attempt,    \* loop variable of `for attempt in range(max_retries)`
    calls,      \* number of ydl.extract_info calls made so far
    sleeps,     \* the backoff delays slept so far, in order (seconds)
    hist,       \* the outcome of each provider call made so far, in order
    pending,    \* backoff_delay of the time.sleep the worker is blocked in
    result,     \* what _extract_with_retry returned or raised
    info,       \* the info dict handed to the projections
    out,        \* what the projection returned or raised
    task,       \* per request: its _extract_with_retry job in the executor
    caller,     \* per request: the handler awaiting asyncio.wait_for
    queue       \* the executor's work queue, oldest first

vars == <<pc, attempt, calls, sleeps, hist, pending, result, info, out,
          task, caller, queue>>

\* The state of the executor and of the request handlers.
poolVars == <<task, caller, queue>>

None == "<None>"

----------------------------------------------------------------------------
(* Character-level helpers for Python str methods.                         *)

UpperChars == <<"A","B","C","D","E","F","G","H","I","J","K","L","M",
                "N","O","P","Q","R","S","T","U","V","W","X","Y","Z">>
LowerChars == <<"a","b","c","d","e","f","g","h","i","j","k","l","m",
                "n","o","p","q","r","s","t","u","v","w","x","y","z">>
DigitChars == <<"0","1","2","3","4","5","6","7","8","9">>

IsUpper(c) == \E i \in 1..Len(UpperChars) : UpperChars[i] = c
IsLower(c) == \E i \in 1..Len(LowerChars) : LowerChars[i] = c
IsDigit(c) == \E i \in 1..Len(DigitChars) : DigitChars[i] = c

LowerChar(c) ==
    IF IsUpper(c)
    THEN LowerChars[CHOOSE i \in 1..Len(UpperChars) : UpperChars[i] = c]
    ELSE c

UpperChar(c) ==
    IF IsLower(c)
    THEN UpperChars[CHOOSE i \in 1..Len(LowerChars) : LowerChars[i] = c]
    ELSE c

CharAt(s, i) == SubSeq(s, i, i)

\* str.lower()
RECURSIVE StrLower(_)
StrLower(s) ==
    IF Len(s) = 0 THEN ""
    ELSE LowerChar(CharAt(s, 1)) \o StrLower(SubSeq(s, 2, Len(s)))

\* `k in s` for two str
StrContains(s, k) ==
    \E i \in 1..(Len(s) - Len(k) + 1) : SubSeq(s, i, i + Len(k) - 1) = k

\* str.endswith(k)
StrEndsWith(s, k) ==
    /\ Len(s) >= Len(k)
    /\ SubSeq(s, Len(s) - Len(k) + 1, Len(s)) = k

\* str(n) / f"{n}" for an int n >= 0
RECURSIVE IntToStr(_)
IntToStr(n) ==
    IF n < 10 THEN DigitChars[n + 1]
    ELSE IntToStr(n \div 10) \o DigitChars[(n % 10) + 1]

----------------------------------------------------------------------------
(* _extract_with_retry                                                     *)

MAX_RETRIES == 3
RETRY_DELAY == 1

\* The provider's DownloadError texts the model draws from.
DownloadErrorTexts ==
    { "ERROR: Video unavailable",
      "ERROR: VIDEO UNAVAILABLE",
      "ERROR: Private video. Sign in if you have access",
      "ERROR: private video",
      "ERROR: Unsupported URL: http://x/login",
      "ERROR: unsupported URL",
      "ERROR: Sign in to confirm you are not a bot",
      "ERROR: sign in first",
      "ERROR: Login required",
      "ERROR: This page is gone",
      "ERROR: Video unavailable: blocked",
      "ERROR: Blocked on Copyright grounds",
      "ERROR: Connection reset by peer",
      "ERROR: HTTP Error 503" }

ExtractorErrorTexts == { "Private video", "Unable to extract player" }

ExceptionTexts == { "socket timed out", "Video unavailable" }

\* What one iteration of the loop comes to: a raise, a sleep, or a return.
Raise(cls, message) == [kind |-> "raise", cls |-> cls, message |-> message, delay |-> 0]
Retry(delay) == [kind |-> "sleep", cls |-> "", message |-> "", delay |-> delay]
Return == [kind |-> "return", cls |-> "", message |-> "", delay |-> 0]

\* The exponent off by one.
BackoffDelayOffByOne(att) == RETRY_DELAY * (2 ^ (att + 1))

\* RETRY_DELAY * (2 ** attempt)
BackoffDelay(att) == RETRY_DELAY * (2 ^ att)

\* The if/elif chain of the DownloadError handler; "" when no branch raises.
Classify(error_msg) ==
    IF StrContains(error_msg, "Video unavailable") \/ StrContains(error_msg, "Private video")
    THEN Raise("VideoUnavailableError", "Video is unavailable or private")
    ELSE IF StrContains(error_msg, "Unsupported URL")
    THEN Raise("URLValidationError", "This URL is not supported by any available extractor")
    ELSE IF StrContains(error_msg, "Sign in") \/ StrContains(StrLower(error_msg), "login")
    THEN Raise("AuthenticationRequiredError", "This video requires authentication to access")
    ELSE IF StrContains(StrLower(error_msg), "age")
    THEN Raise("AuthenticationRequiredError",
               "This video is age-restricted and requires authentication")
    ELSE IF StrContains(StrLower(error_msg), "copyright")
            \/ StrContains(StrLower(error_msg), "blocked")
    THEN Raise("VideoUnavailableError",
               "This video is blocked or unavailable in your region")
    ELSE Return


\* The raise of a classified error placed after the retry check.
OnDownloadErrorRetryFirst(error_msg, att, max_retries) ==
    IF att < max_retries - 1 THEN Retry(RETRY_DELAY * (2 ^ att))
    ELSE IF Classify(error_msg).kind = "raise" THEN Classify(error_msg)
    ELSE Raise("VideoExtractionError",
               "Failed after " \o IntToStr(max_retries) \o " attempts: " \o error_msg)

\* except yt_dlp.utils.DownloadError
OnDownloadError(error_msg, att, max_retries) ==
    IF Classify(error_msg).kind = "raise" THEN Classify(error_msg)
    ELSE IF att < max_retries - 1 THEN Retry(BackoffDelay(att))
    ELSE Raise("VideoExtractionError",
               "Failed after " \o IntToStr(max_retries) \o " attempts: " \o error_msg)

\* except yt_dlp.utils.ExtractorError
OnExtractorError(error_msg, att, max_retries) ==
    Raise("VideoExtractionError", "Extractor error: " \o error_msg)

\* The last attempt taken one iteration early.
OnExceptionGivesUpEarly(error_msg, att, max_retries) ==
    IF att < max_retries - 2 THEN Retry(BackoffDelay(att))
    ELSE Raise("VideoExtractionError", "Unexpected error: " \o error_msg)

\* except Exception
OnException(error_msg, att, max_retries) ==
    IF att < max_retries - 1 THEN Retry(BackoffDelay(att))
    ELSE Raise("VideoExtractionError", "Unexpected error: " \o error_msg)

\* One iteration of the loop body up to its return, raise or time.sleep.
\* `raise VideoExtractionError(...)` for info None sits inside the try block,
\* and VideoExtractionError is an Exception that is neither a DownloadError
\* nor an ExtractorError, so the `except Exception` clause handles it.
TryExtract(o, att, max_retries) ==
    CASE o.type = "info" -> Return
      [] o.type = "None" ->
            OnException("Could not extract video information", att, max_retries)
      [] o.type = "DownloadError" -> OnDownloadError(o.msg, att, max_retries)
      [] o.type = "ExtractorError" -> OnExtractorError(o.msg, att, max_retries)
      [] o.type = "Exception" -> OnException(o.msg, att, max_retries)

NoResult == [kind |-> "pending", cls |-> "", message |-> ""]

\* No projection has run yet.
NoOut == [kind |-> "pending", value |-> "", code |-> ""]

\* ydl.extract_info is called and the iteration runs to its outcome.
ProviderCall(o) ==
    /\ pc = "call"
    /\ LET step == TryExtract(o, attempt, MAX_RETRIES) IN
         /\ calls' = calls + 1
         /\ hist' = Append(hist, o)
         /\ IF step.kind = "sleep"
            THEN /\ pc' = "sleep"
                 /\ pending' = step.delay
                 /\ result' = result
            ELSE /\ pc' = "done"
                 /\ pending' = 0
                 /\ result' = [kind |-> step.kind, cls |-> step.cls,
                               message |-> step.message]
    /\ UNCHANGED <<attempt, sleeps, info, out, poolVars>>

ExtractInfo == ProviderCall([type |-> "info", msg |-> ""])
ExtractNone == ProviderCall([type |-> "None", msg |-> ""])
ExtractDownloadError == \E m \in DownloadErrorTexts : ProviderCall([type |-> "DownloadError", msg |-> m])
ExtractExtractorError == \E m \in ExtractorErrorTexts : ProviderCall([type |-> "ExtractorError", msg |-> m])
ExtractException == \E m \in ExceptionTexts : ProviderCall([type |-> "Exception", msg |-> m])

\* time.sleep(backoff_delay) returns and the for loop takes the next attempt.
BackoffSleep ==
    /\ pc = "sleep"
    /\ sleeps' = Append(sleeps, pending)
    /\ attempt' = attempt + 1
    /\ pending' = 0
    /\ pc' = "call"
    /\ UNCHANGED <<calls, hist, result, info, out, poolVars>>

\* No request is being handled by the executor.
NoRequests ==
    /\ task = <<>>
    /\ caller = <<>>
    /\ queue = <<>>

Init ==
    /\ NoRequests
    /\ pc = "call"
    /\ attempt = 0
    /\ calls = 0
    /\ sleeps = <<>>
    /\ hist = <<>>
    /\ pending = 0
    /\ result = NoResult
    /\ info = [url |-> None, formats |-> <<>>, requested_formats |-> <<>>]
    /\ out = NoOut

Next ==
    \/ ExtractInfo
    \/ ExtractNone
    \/ ExtractDownloadError
    \/ ExtractExtractorError
    \/ ExtractException
    \/ BackoffSleep

Spec == Init /\ [][Next]_vars

----------------------------------------------------------------------------
(* Claims about _extract_with_retry, checked under Spec.                   *)

\* The precedence list of the specification, every keyword matched as a
\* case-insensitive substring; "" when no keyword occurs.
SpecRuleClass(text) ==
    LET t == StrLower(text) IN
    IF StrContains(t, "video unavailable") \/ StrContains(t, "private video")
    THEN "VideoUnavailableError"
    ELSE IF StrContains(t, "unsupported url") THEN "URLValidationError"
    ELSE IF StrContains(t, "sign in") \/ StrContains(t, "login")
    THEN "AuthenticationRequiredError"
    ELSE IF StrContains(t, "age") THEN "AuthenticationRequiredError"
    ELSE IF StrContains(t, "copyright") \/ StrContains(t, "blocked")
    THEN "VideoUnavailableError"
    ELSE ""

\* The provider call failed with an error that no rule classifies, in any
\* letter case: an exception of another class, or a DownloadError whose text
\* holds no keyword.
IsTransient(o) ==
    \/ o.type = "Exception"
    \/ o.type = "DownloadError" /\ SpecRuleClass(o.msg) = ""

\* The provider call failed with an error the code treats as terminal.
IsTerminal(o) ==
    \/ o.type = "ExtractorError"
    \/ o.type = "DownloadError" /\ Classify(o.msg).kind = "raise"

\* The exception class a terminal error must surface as.
TerminalClass(o) ==
    IF o.type = "ExtractorError" THEN "VideoExtractionError" ELSE Classify(o.msg).cls

\* The call that produced hist[i] ended the whole function with a raise:
\* nothing was slept and nothing was called after it.
EndedAt(i) ==
    /\ Len(hist) = i
    /\ calls = i
    /\ pc = "done"
    /\ pending = 0
    /\ Len(sleeps) = i - 1
    /\ result.kind = "raise"

\* C1: a provider call that returns None ends resolve at once with a
\* non-retryable VideoExtractionError: it is the last provider call, no sleep
\* follows it, and when it is the first call exactly one call was made.
C1_NoneFailsImmediately ==
    \A i \in 1..Len(hist) :
        hist[i].type = "None" =>
            /\ EndedAt(i)
            /\ result.cls = "VideoExtractionError"

\* C2: every provider error text is classified by the first rule whose keyword
\* occurs in it in any letter case; a text so classified is raised with that
\* rule's error kind and is never retried.
C2_CaseInsensitivePrecedence ==
    \A i \in 1..Len(hist) :
        (hist[i].type = "DownloadError" /\ SpecRuleClass(hist[i].msg) # "") =>
            /\ EndedAt(i)
            /\ result.cls = SpecRuleClass(hist[i].msg)

\* C3: a provider call that fails with an error classified as terminal ends
\* resolve at once with that error kind, no sleep and no provider call after
\* it; a first error containing "Private video" gives VideoUnavailable after
\* exactly one call.
C3_TerminalPropagatesAtOnce ==
    /\ \A i \in 1..Len(hist) :
          IsTerminal(hist[i]) =>
              /\ EndedAt(i)
              /\ result.cls = TerminalClass(hist[i])
    /\ (/\ Len(hist) >= 1
        /\ hist[1].type = "DownloadError"
        /\ StrContains(hist[1].msg, "Private video"))
       => (/\ calls = 1
           /\ sleeps = <<>>
           /\ pc = "done"
           /\ result.kind = "raise"
           /\ result.cls = "VideoUnavailableError")

C3_Witness ==
    /\ Len(hist) = 1
    /\ hist[1].type = "DownloadError"
    /\ StrContains(hist[1].msg, "Private video")
    /\ pc = "done"

\* C4: k < MAX_RETRIES transient failures followed by a success make resolve
\* return after exactly k+1 calls, having slept RETRY_DELAY * 2^i after failed
\* attempt i (0-based) and nothing else; for k = 2 the sleeps are 1 then 2.
C4_RetryThenSuccess ==
    \A k \in 0..(MAX_RETRIES - 1) :
        (/\ Len(hist) = k + 1
         /\ \A i \in 1..k : IsTransient(hist[i])
         /\ hist[k + 1].type = "info")
        => (/\ pc = "done"
            /\ result.kind = "return"
            /\ calls = k + 1
            /\ pending = 0
            /\ sleeps = [i \in 1..k |-> RETRY_DELAY * (2 ^ (i - 1))]
            /\ (k = 2 => sleeps = <<1, 2>>))

C4_Witness ==
    /\ Len(hist) = 3
    /\ IsTransient(hist[1])
    /\ IsTransient(hist[2])
    /\ hist[3].type = "info"
    /\ result.kind = "return"

\* All provider calls so far failed with a transient or unexpected error.
AllTransient == hist # <<>> /\ \A i \in 1..Len(hist) : IsTransient(hist[i])

\* What holds of the loop whenever every attempt so far failed transiently:
\* never more than MAX_RETRIES calls, a raise only after the last one, and
\* no sleep after the last one.
ExhaustsRetries ==
    /\ calls <= MAX_RETRIES
    /\ calls = Len(hist)
    /\ (pc = "done" <=> calls = MAX_RETRIES)
    /\ (pc = "done" =>
          /\ pending = 0
          /\ sleeps = <<1, 2>>
          /\ result.kind = "raise"
          /\ result.cls = "VideoExtractionError")

AttemptCountNote == IntToStr(MAX_RETRIES) \o " attempts"

----------------------------------------------------------------------------
(* get_best_download_url                                                   *)

MaxFormats == 2
MaxRequested == 1

\* A missing or None value of an int field (height, tbr, filesize).
NoInt == -1

\* Python truthiness of dict.get(key) for a str value.
Truthy(x) == x # None /\ x # ""

\* x or 0, for an int field
OrZero(x) == IF x = NoInt \/ x = 0 THEN 0 ELSE x

\* The url of the i-th entry of info["formats"] / info["requested_formats"].
FormatUrls == <<"f1", "f2", "f3", "f4">>
RequestedUrls == <<"r1", "r2", "r3">>

\* mp4 entries that carry a url: every presence of the two codecs, with the
\* heights and bitrates that order them.
Mp4Entries ==
    { [ext |-> "mp4", url |-> "present", vcodec |-> c[1], acodec |-> c[2],
       height |-> q[1], tbr |-> q[2]] :
      c \in {None, "none", "avc1"} \X {None, "none", "mp4a"},
      q \in { <<NoInt, NoInt>>, <<720, NoInt>>, <<720, 128>>, <<1080, NoInt>> } }

\* Entries of another container, and entries whose url is missing or empty.
OtherEntries ==
    { [ext |-> "webm", url |-> "present", vcodec |-> "vp9", acodec |-> "opus",
       height |-> 2160, tbr |-> 512],
      [ext |-> "mp4", url |-> None, vcodec |-> "avc1", acodec |-> "mp4a",
       height |-> 2160, tbr |-> 512],
      [ext |-> "mp4", url |-> "", vcodec |-> "avc1", acodec |-> "mp4a",
       height |-> 2160, tbr |-> 512] }

FormatEntries == Mp4Entries \cup OtherEntries

\* The entries of info["requested_formats"]: with a url, and without.
RequestedEntries == { e \in OtherEntries : e.url # "" }

\* The entries with their urls filled in by position.
WithUrls(entries, urls) ==
    [i \in 1..Len(entries) |->
        [entries[i] EXCEPT !.url = IF @ = "present" THEN urls[i] ELSE @]]

SeqsUpTo(S, n) == UNION { [1..k -> S] : k \in 0..n }

IsMp4WithUrl(f) == f.ext = "mp4" /\ Truthy(f.url)
IsVideoAudio(f) == f.vcodec # "none" /\ f.acodec # "none"
IsVideoOnly(f) == f.vcodec # "none"
HasUrl(f) == Truthy(f.url)

\* key=lambda x: (x.get("height") or 0, x.get("tbr") or 0), compared as tuples
KeyLess(a, b) ==
    \/ OrZero(a.height) < OrZero(b.height)
    \/ OrZero(a.height) = OrZero(b.height) /\ OrZero(a.tbr) < OrZero(b.tbr)

\* max(seq, key=...): the first element no other element exceeds
PyMax(seq) ==
    seq[CHOOSE i \in 1..Len(seq) :
            /\ \A j \in 1..Len(seq) : ~KeyLess(seq[i], seq[j])
            /\ \A j \in 1..(i - 1) : KeyLess(seq[j], seq[i])]

ReturnUrl(u) == [kind |-> "return", value |-> u, code |-> ""]
RaiseNoUrl == [kind |-> "raise", value |-> "VideoExtractionError", code |-> "NO_DOWNLOAD_URL"]

\* The scan over reversed(formats) without its `if fmt.get("url")`.
ReversedFirstAny(formats) == Len(formats)

\* for fmt in reversed(formats): if fmt.get("url"): the index found, 0 if none
ReversedFirstWithUrl(formats) ==
    IF \E i \in 1..Len(formats) : HasUrl(formats[i])
    THEN CHOOSE i \in 1..Len(formats) :
            /\ HasUrl(formats[i])
            /\ \A j \in (i + 1)..Len(formats) : ~HasUrl(formats[j])
    ELSE 0

\* for fmt in info["requested_formats"]: if fmt.get("url"): the index, 0 if none
FirstWithUrl(formats) ==
    IF \E i \in 1..Len(formats) : HasUrl(formats[i])
    THEN CHOOSE i \in 1..Len(formats) :
            /\ HasUrl(formats[i])
            /\ \A j \in 1..(i - 1) : ~HasUrl(formats[j])
    ELSE 0

\* info.get("formats", []) and info.get("requested_formats") are sequences
\* here, the empty one standing for a missing key as well.
get_best_download_url(i) ==
    LET formats == i.formats
        mp4_formats == SelectSeq(formats, IsMp4WithUrl)
        video_audio == SelectSeq(mp4_formats, IsVideoAudio)
        video_only == SelectSeq(mp4_formats, IsVideoOnly)
        last == ReversedFirstWithUrl(formats)
        req == IF i.requested_formats # <<>>
               THEN FirstWithUrl(i.requested_formats) ELSE 0
    IN  IF Truthy(i.url) THEN ReturnUrl(i.url)
        ELSE IF mp4_formats # <<>> /\ video_audio # <<>>
        THEN ReturnUrl(PyMax(video_audio).url)
        ELSE IF mp4_formats # <<>> /\ video_only # <<>>
        THEN ReturnUrl(PyMax(video_only).url)
        ELSE IF formats # <<>> /\ last # 0 THEN ReturnUrl(formats[last].url)
        ELSE IF req # 0 THEN ReturnUrl(i.requested_formats[req].url)
        ELSE RaiseNoUrl

\* The retry loop has returned info from its first provider call; the
\* projections leave its variables alone.
Idle ==
    /\ NoRequests
    /\ pc = "done"
    /\ attempt = 0
    /\ calls = 1
    /\ sleeps = <<>>
    /\ hist = <<[type |-> "info", msg |-> ""]>>
    /\ pending = 0
    /\ result = [kind |-> "return", cls |-> "", message |-> ""]

InitSelect ==
    /\ Idle
    /\ \E u \in {None, "", "d"}, fs \in SeqsUpTo(FormatEntries, MaxFormats),
          rs \in SeqsUpTo(RequestedEntries, MaxRequested) :
          info = [url |-> u,
                  formats |-> WithUrls(fs, FormatUrls),
                  requested_formats |-> WithUrls(rs, RequestedUrls)]
    /\ out = NoOut

\* download_url = get_best_download_url(info)
SelectBestUrl ==
    /\ out.kind = "pending"
    /\ out' = get_best_download_url(info)
    /\ UNCHANGED <<pc, attempt, calls, sleeps, hist, pending, result, info, poolVars>>

NextSelect == SelectBestUrl

SpecSelect == InitSelect /\ [][NextSelect]_vars

\* The entries of formats and requested_formats of the info dict.
AllEntries ==
    { info.formats[i] : i \in 1..Len(info.formats) }
    \cup { info.requested_formats[i] : i \in 1..Len(info.requested_formats) }

\* A codec that is absent or "none" is not present.
CodecPresent(c) == c # None /\ c # "none"

\* The indices of the mp4 entries with a url and both codecs present.
Playable ==
    { i \in 1..Len(info.formats) :
        /\ info.formats[i].ext = "mp4"
        /\ info.formats[i].url # None /\ info.formats[i].url # ""
        /\ CodecPresent(info.formats[i].vcodec)
        /\ CodecPresent(info.formats[i].acodec) }

HeightOf(f) == IF f.height = NoInt THEN 0 ELSE f.height
BitrateOf(f) == IF f.tbr = NoInt THEN 0 ELSE f.tbr

Better(a, b) ==
    \/ HeightOf(a) > HeightOf(b)
    \/ HeightOf(a) = HeightOf(b) /\ BitrateOf(a) > BitrateOf(b)

\* C6: without a directUrl and with at least one mp4 entry that has a url and
\* both codecs present, selectBestUrl returns the url of the first entry, in
\* declaration order, that maximizes (height ?? 0, bitrate ?? 0) among exactly
\* those entries; an mp4 entry lacking a codec is never preferred.
C6_BestAmongPlayable ==
    (out.kind # "pending" /\ ~Truthy(info.url) /\ Playable # {}) =>
        \E i \in Playable :
            /\ \A j \in Playable : ~Better(info.formats[j], info.formats[i])
            /\ \A j \in Playable : j < i => Better(info.formats[i], info.formats[j])
            /\ out = ReturnUrl(info.formats[i].url)

\* C7: selectBestUrl returns a non-empty string that is directUrl or the url
\* of an entry of formats or requestedFormats, or fails with NoDownloadURL; it
\* fails exactly when directUrl is absent or empty and no entry has a
\* non-empty url.
C7_UrlOrNoDownloadUrl ==
    out.kind # "pending" =>
        LET nothing == /\ info.url \in {None, ""}
                       /\ \A e \in AllEntries : e.url \in {None, ""}
        IN  /\ out.kind \in {"return", "raise"}
            /\ out.kind = "raise" <=> nothing
            /\ out.kind = "raise" => out.code = "NO_DOWNLOAD_URL"
            /\ out.kind = "return" =>
                  /\ out.value \notin {None, ""}
                  /\ \/ out.value = info.url
                     \/ \E e \in AllEntries : e.url = out.value

C7_Witness ==
    /\ out.kind = "return"
    /\ info.url = ""
    /\ Len(info.formats) = 2
    /\ info.formats[2].url = None
    /\ out.value = info.formats[1].url

----------------------------------------------------------------------------
(* extract_available_qualities: the catalog built from info["formats"]     *)

\* The format_id of the i-th entry of info["formats"].
FormatIds == <<"1", "2", "3", "4">>

\* Entries with a url: with and without a height, of three containers (two
\* with "_" in the name), every presence of the codecs, and format notes that
\* are absent, a height, free text, and free text ending in "p".
CatalogEntries ==
    { [url |-> "present", height |-> h, ext |-> e, vcodec |-> c[1], acodec |-> c[2],
       format_note |-> n, filesize |-> NoInt, filesize_approx |-> 1000] :
      h \in {NoInt, 360, 720},
      e \in {"mp4", "video", "unknown_video"},
      c \in { <<"avc1", "mp4a">>, <<"avc1", "none">>, <<"none", "mp4a">>, <<None, None>> },
      n \in {None, "720p", "hd720p", "DASH video", "source", "source_unknown"} }
    \cup
    { [url |-> u, height |-> 720, ext |-> "mp4", vcodec |-> "avc1", acodec |-> "mp4a",
       format_note |-> None, filesize |-> 2000, filesize_approx |-> NoInt] :
      u \in {None, ""} }

WithIds(entries) ==
    [i \in 1..Len(entries) |->
        [format_id |-> FormatIds[i],
         url |-> IF entries[i].url = "present" THEN FormatUrls[i] ELSE entries[i].url,
         height |-> entries[i].height,
         ext |-> entries[i].ext,
         vcodec |-> entries[i].vcodec,
         acodec |-> entries[i].acodec,
         format_note |-> entries[i].format_note,
         filesize |-> entries[i].filesize,
         filesize_approx |-> entries[i].filesize_approx]]

\* fmt.get("vcodec") != "none" and fmt.get("vcodec") is not None
HasCodec(c) == c # "none" /\ c # None

\* The if/elif/else that names the quality of a format.
QualityLabel(fmt) ==
    IF fmt.height # NoInt /\ fmt.height # 0 THEN IntToStr(fmt.height) \o "p"
    ELSE IF HasCodec(fmt.acodec) /\ ~HasCodec(fmt.vcodec) THEN "audio only"
    ELSE IF fmt.format_note = None THEN "unknown"
    ELSE fmt.format_note

\* str(bool) inside an f-string
BoolStr(b) == IF b THEN "True" ELSE "False"

\* f"{quality_label}_{ext}_{has_audio}"
QualityKey(fmt) ==
    QualityLabel(fmt) \o "_" \o fmt.ext \o "_" \o BoolStr(HasCodec(fmt.acodec))

\* The dict appended to quality_options.
OptionOf(fmt) ==
    [format_id |-> fmt.format_id,
     quality |-> QualityLabel(fmt),
     ext |-> fmt.ext,
     filesize |-> IF fmt.filesize # NoInt /\ fmt.filesize # 0 THEN fmt.filesize
                  ELSE fmt.filesize_approx,
     has_audio |-> HasCodec(fmt.acodec),
     has_video |-> HasCodec(fmt.vcodec)]

\* The `for fmt in formats` loop from entry i on, with the options and the
\* seen keys accumulated so far.
RECURSIVE CollectOptions(_, _, _, _)
CollectOptions(formats, i, quality_options, seen_qualities) ==
    IF i > Len(formats) THEN quality_options
    ELSE IF ~Truthy(formats[i].url)
    THEN CollectOptions(formats, i + 1, quality_options, seen_qualities)
    ELSE IF QualityKey(formats[i]) \in seen_qualities
    THEN CollectOptions(formats, i + 1, quality_options, seen_qualities)
    ELSE CollectOptions(formats, i + 1,
                        Append(quality_options, OptionOf(formats[i])),
                        seen_qualities \cup {QualityKey(formats[i])})

\* str.replace("p", "")
RECURSIVE StripP(_)
StripP(s) ==
    IF Len(s) = 0 THEN ""
    ELSE (IF CharAt(s, 1) = "p" THEN "" ELSE CharAt(s, 1)) \o StripP(SubSeq(s, 2, Len(s)))

\* int(s) succeeds; the strings of this model hold no sign, blank or "_"
\* between digits, so these are the non-empty strings of digits.
IsIntLiteral(s) ==
    /\ Len(s) > 0
    /\ \A i \in 1..Len(s) : IsDigit(CharAt(s, i))

DigitValue(c) == (CHOOSE i \in 1..Len(DigitChars) : DigitChars[i] = c) - 1

\* int(s) for such a string
RECURSIVE PyInt(_)
PyInt(s) ==
    IF Len(s) = 0 THEN 0
    ELSE 10 * PyInt(SubSeq(s, 1, Len(s) - 1)) + DigitValue(CharAt(s, Len(s)))

\* The sort key lambda raises ValueError on this option.
KeyRaises(x) == StrEndsWith(x.quality, "p") /\ ~IsIntLiteral(StripP(x.quality))

\* The sort key lambda.
SortKey(x) ==
    << IF x.has_video THEN 0 ELSE 1,
       IF StrEndsWith(x.quality, "p") THEN 0 - PyInt(StripP(x.quality)) ELSE 0 >>

TupleLess(a, b) == a[1] < b[1] \/ (a[1] = b[1] /\ a[2] < b[2])

\* x put into an already sorted list behind every element not greater than it
InsertSorted(sorted, x) ==
    LET n == Cardinality({ j \in 1..Len(sorted) : ~TupleLess(SortKey(x), SortKey(sorted[j])) })
    IN  SubSeq(sorted, 1, n) \o <<x>> \o SubSeq(sorted, n + 1, Len(sorted))

\* list.sort(key=...): ascending and stable
RECURSIVE StableSort(_)
StableSort(seq) ==
    IF seq = <<>> THEN <<>>
    ELSE InsertSorted(StableSort(SubSeq(seq, 1, Len(seq) - 1)), seq[Len(seq)])

ReturnCatalog(options) == [kind |-> "return", value |-> options, code |-> ""]
RaiseValueError == [kind |-> "raise", value |-> <<>>, code |-> "ValueError"]

\* Lines 158-198: the options collected, then sorted in place.
available_qualities(i) ==
    LET quality_options == CollectOptions(i.formats, 1, <<>>, {})
    IN  IF \E k \in 1..Len(quality_options) : KeyRaises(quality_options[k])
        THEN RaiseValueError
        ELSE ReturnCatalog(StableSort(quality_options))

InitCatalog ==
    /\ Idle
    /\ \E fs \in SeqsUpTo(CatalogEntries, MaxFormats) :
          info = [url |-> None, formats |-> WithIds(fs), requested_formats |-> <<>>]
    /\ out = [kind |-> "pending", value |-> <<>>, code |-> ""]

BuildCatalog ==
    /\ out.kind = "pending"
    /\ out' = available_qualities(info)
    /\ UNCHANGED <<pc, attempt, calls, sleeps, hist, pending, result, info, poolVars>>

NextCatalog == BuildCatalog

SpecCatalog == InitCatalog /\ [][NextCatalog]_vars

\* The indices of the formats that carry a url.
UrlBearing == { i \in 1..Len(info.formats) : info.formats[i].url \notin {None, ""} }

\* The (qualityLabel, ext, hasAudio) tuple of a format and of an option.
TupleOfFormat(fmt) == <<QualityLabel(fmt), fmt.ext, HasCodec(fmt.acodec)>>
TupleOfOption(o) == <<o.quality, o.ext, o.has_audio>>

\* The first url-bearing format, in declaration order, with the tuple of format i.
FirstWithTuple(i) ==
    CHOOSE j \in UrlBearing :
        /\ TupleOfFormat(info.formats[j]) = TupleOfFormat(info.formats[i])
        /\ \A k \in UrlBearing :
              TupleOfFormat(info.formats[k]) = TupleOfFormat(info.formats[i]) => j <= k

\* C8: the catalog holds no two options with the same (qualityLabel, ext,
\* hasAudio) tuple, has at most as many options as there are formats, and for
\* each tuple keeps the option built from the first url-bearing format, in
\* declaration order, that has the tuple.
C8_DedupKeepsFirstOfEachTuple ==
    out.kind = "return" =>
        LET cat == out.value IN
        /\ \A a, b \in 1..Len(cat) :
              a # b => TupleOfOption(cat[a]) # TupleOfOption(cat[b])
        /\ Len(cat) <= Len(info.formats)
        /\ \A i \in UrlBearing :
              \E a \in 1..Len(cat) : cat[a] = OptionOf(info.formats[FirstWithTuple(i)])

\* The height a label counts as: its number when it is a numeric height
\* followed by "p", else 0.
LabelHeight(label) ==
    IF /\ Len(label) >= 2
       /\ CharAt(label, Len(label)) = "p"
       /\ IsIntLiteral(SubSeq(label, 1, Len(label) - 1))
    THEN PyInt(SubSeq(label, 1, Len(label) - 1))
    ELSE 0

\* The position in info["formats"] of the format an option was built from.
SeenAt(o) == CHOOSE i \in 1..Len(FormatIds) : FormatIds[i] = o.format_id

\* Video-bearing options first, descending label height inside each group,
\* first-seen order among equal keys.
CatalogOrdered(cat) ==
    \A a, b \in 1..Len(cat) :
        a < b =>
            /\ cat[b].has_video => cat[a].has_video
            /\ cat[a].has_video = cat[b].has_video =>
                  /\ LabelHeight(cat[a].quality) >= LabelHeight(cat[b].quality)
                  /\ LabelHeight(cat[a].quality) = LabelHeight(cat[b].quality)
                        => SeenAt(cat[a]) < SeenAt(cat[b])

\* C9: for any combination of heights and free-form format notes buildCatalog
\* returns, never fails, and what it returns has every video-bearing option
\* before every option without video, descending numeric height inside each
\* group (a label that is not a number followed by "p" counting as 0), and
\* first-seen order among options with equal keys.
C9_CatalogAlwaysReturnedOrdered ==
    out.kind # "pending" =>
        /\ out.kind = "return"
        /\ CatalogOrdered(out.value)

\* What does hold of the code: a catalog that is returned is ordered so.
ReturnedCatalogOrdered == out.kind = "return" => CatalogOrdered(out.value)

\* The no-duplicate and length parts of C8 alone.
ReturnedCatalogHasNoDuplicate ==
    out.kind = "return" =>
        /\ \A a, b \in 1..Len(out.value) :
              a # b => TupleOfOption(out.value[a]) # TupleOfOption(out.value[b])
        /\ Len(out.value) <= Len(info.formats)

----------------------------------------------------------------------------
(* _normalize_platform                                                     *)

MaxIdLen == 3

\* The characters extractor ids are drawn from: a lower-case and an
\* upper-case letter and the two separators the function looks at.
IdChars == {"y", "T", "_", ":"}

RECURSIVE StrsUpTo(_, _)
StrsUpTo(chars, n) ==
    IF n = 0 THEN {""}
    ELSE LET shorter == StrsUpTo(chars, n - 1)
         IN  shorter \cup { s \o c : s \in shorter, c \in chars }

\* info["extractor"]: missing (None), or a string with or without ":tab".
ExtractorIds ==
    {None, "youtube", "youtube:tab", "bbc_iplayer"}
    \cup { s \o t : s \in StrsUpTo(IdChars, MaxIdLen), t \in {"", ":tab"} }

\* str.replace("_", " ")
RECURSIVE UnderscoresToSpaces(_)
UnderscoresToSpaces(s) ==
    IF Len(s) = 0 THEN ""
    ELSE (IF CharAt(s, 1) = "_" THEN " " ELSE CharAt(s, 1))
         \o UnderscoresToSpaces(SubSeq(s, 2, Len(s)))

IsCased(c) == IsUpper(c) \/ IsLower(c)

\* str.title(): a letter is upper-cased when the character before it is not
\* a letter, lower-cased when it is.
RECURSIVE TitleFrom(_, _)
TitleFrom(s, previous_is_cased) ==
    IF Len(s) = 0 THEN ""
    ELSE LET c == CharAt(s, 1) IN
         (IF ~IsCased(c) THEN c
          ELSE IF previous_is_cased THEN LowerChar(c) ELSE UpperChar(c))
         \o TitleFrom(SubSeq(s, 2, Len(s)), IsCased(c))

StrTitle(s) == TitleFrom(s, FALSE)

normalize_platform(extractor) ==
    LET platform == IF StrEndsWith(extractor, ":tab")
                    THEN SubSeq(extractor, 1, Len(extractor) - 4)
                    ELSE extractor
    IN  StrTitle(UnderscoresToSpaces(platform))

\* info.get("extractor", "unknown")
GetExtractor(i) == IF i.extractor = None THEN "unknown" ELSE i.extractor

InitNormalize ==
    /\ Idle
    /\ \E e \in ExtractorIds : info = [extractor |-> e]
    /\ out = NoOut

\* platform = _normalize_platform(info.get("extractor", "unknown"))
NormalizePlatform ==
    /\ out.kind = "pending"
    /\ out' = [kind |-> "return", value |-> normalize_platform(GetExtractor(info)), code |-> ""]
    /\ UNCHANGED <<pc, attempt, calls, sleeps, hist, pending, result, info, poolVars>>

NextNormalize == NormalizePlatform

SpecNormalize == InitNormalize /\ [][NextNormalize]_vars

\* C10: normalize never fails; a missing or an empty extractor id gives
\* "Unknown"; a trailing ":tab" is removed before title-casing, so that
\* "youtube:tab" gives "Youtube".
C10_NormalizeTotalUnknownTab ==
    out.kind # "pending" =>
        /\ out.kind = "return"
        /\ info.extractor \in {None, ""} => out.value = "Unknown"
        /\ info.extractor = "youtube:tab" => out.value = "Youtube"
        /\ (info.extractor # None /\ StrEndsWith(info.extractor, ":tab")) =>
              /\ Len(out.value) = Len(info.extractor) - 4
              /\ ~StrEndsWith(out.value, ":Tab")

\* What does hold of the code: as C10, with the empty id mapped to "".
NormalizeEmptyStaysEmpty ==
    out.kind # "pending" =>
        /\ out.kind = "return"
        /\ info.extractor = None => out.value = "Unknown"
        /\ info.extractor = "" => out.value = ""
        /\ info.extractor = "youtube:tab" => out.value = "Youtube"
        /\ info.extractor = "bbc_iplayer" => out.value = "Bbc Iplayer"
        /\ (info.extractor # None /\ StrEndsWith(info.extractor, ":tab")) =>
              /\ Len(out.value) = Len(info.extractor) - 4
              /\ ~StrEndsWith(out.value, ":Tab")

----------------------------------------------------------------------------
(* The executor shared by the request handlers, and asyncio.wait_for       *)

\* ThreadPoolExecutor(max_workers=4)
max_workers == 4

\* Requests that arrive beyond the size of the pool.
MaxWaiting == 1

\* Callers that reach their deadline, and provider calls that fail, in one
\* behaviour.
MaxTimeouts == 1
MaxFailures == 1

Requests == 1..(max_workers + MaxWaiting)

\* What a provider call does in this specification: it returns info, fails
\* with an unclassified DownloadError, or fails with a classified one.
PoolOutcomes ==
    { [type |-> "info", msg |-> ""],
      [type |-> "DownloadError", msg |-> "ERROR: HTTP Error 503"],
      [type |-> "DownloadError", msg |-> "ERROR: Video unavailable"] }

\* One iteration of the loop on each of these outcomes, per attempt.
PoolSteps ==
    [o \in PoolOutcomes |->
        [a \in 0..(MAX_RETRIES - 1) |-> TryExtract(o, a, MAX_RETRIES)]]

\* A job no thread has taken: not yet submitted ("new"), or in the queue.
NewTask == [pc |-> "new", attempt |-> 0, worker |-> 0, result |-> NoResult]

\* A handler no request has reached yet.
NoCaller == [st |-> "idle", got |-> NoResult]

\* The requests whose job a worker thread is executing.
Busy == { c \in Requests : task[c].pc \in {"call", "sleep"} }

\* The worker threads that are not executing a job.
FreeWorkers == (1..max_workers) \ { task[c].worker : c \in Busy }

\* The thread that takes the next job; the threads are interchangeable and
\* the lowest idle one stands for any of them.
NextWorker == CHOOSE w \in FreeWorkers : \A v \in FreeWorkers : w <= v

\* The jobs of the queue that were not cancelled, oldest first.
IsLive(c) == task[c].pc = "queued"
LiveQueue == SelectSeq(queue, IsLive)

\* time.sleep is a blocking call: the thread stays with the job.
WorkerAfterYieldingSleep(step, w) == 0

\* The thread of a job after one iteration: kept while the function sleeps,
\* given back when it returns or raises.
WorkerAfter(step, w) == IF step.kind = "sleep" THEN w ELSE 0

\* The provider calls of request c that have failed so far.
FailedCalls(c) ==
    task[c].attempt
    + (IF task[c].pc = "sleep" \/ (task[c].pc = "done" /\ task[c].result.kind = "raise")
       THEN 1 ELSE 0)

RECURSIVE FailedUpTo(_)
FailedUpTo(c) == IF c = 0 THEN 0 ELSE FailedCalls(c) + FailedUpTo(c - 1)

TimedOut == { c \in Requests : caller[c].st = "timeout" }

InitPool ==
    /\ pc = "done"
    /\ attempt = 0
    /\ calls = 0
    /\ sleeps = <<>>
    /\ hist = <<>>
    /\ pending = 0
    /\ result = NoResult
    /\ info = [url |-> None, formats |-> <<>>, requested_formats |-> <<>>]
    /\ out = NoOut
    /\ task = [c \in Requests |-> NewTask]
    /\ caller = [c \in Requests |-> NoCaller]
    /\ queue = <<>>

retryVars == <<pc, attempt, calls, sleeps, hist, pending, result, info, out>>

\* A handler reaches `await asyncio.wait_for(extract_video_info(...))`, and
\* loop.run_in_executor puts the job in the executor's queue.  Requests are
\* numbered in their order of arrival.
Submit(c) ==
    /\ caller[c].st = "idle"
    /\ \A d \in Requests : d < c => caller[d].st # "idle"
    /\ caller' = [caller EXCEPT ![c].st = "awaiting"]
    /\ task' = [task EXCEPT ![c].pc = "queued"]
    /\ queue' = Append(queue, c)
    /\ UNCHANGED retryVars

\* An idle thread takes the oldest job of the queue that was not cancelled,
\* dropping the cancelled ones before it, and enters _extract_with_retry.
StartWork(c) ==
    /\ LiveQueue # <<>>
    /\ c = Head(LiveQueue)
    /\ FreeWorkers # {}
    /\ task' = [task EXCEPT ![c].pc = "call", ![c].attempt = 0, ![c].worker = NextWorker]
    /\ queue' = Tail(LiveQueue)
    /\ UNCHANGED <<caller, retryVars>>

\* The handler of a finished job: the outcome resumes the handler that still
\* awaits it; a handler that timed out has dropped the future.
CallerAfter(cl, step) ==
    IF step.kind # "sleep" /\ cl.st = "awaiting"
    THEN [st |-> "delivered",
          got |-> [kind |-> step.kind, cls |-> step.cls, message |-> step.message]]
    ELSE cl

\* One iteration of the job's loop: ydl.extract_info and what follows it,
\* up to the sleep, or to the function's end and the wake-up of its awaiter.
PoolProviderCall(c, o) ==
    /\ task[c].pc = "call"
    /\ o.type # "info" => FailedUpTo(max_workers + MaxWaiting) < MaxFailures
    /\ LET step == PoolSteps[o][task[c].attempt] IN
         /\ task' = [task EXCEPT
                    ![c].pc = IF step.kind = "sleep" THEN "sleep" ELSE "done",
                    ![c].worker = WorkerAfter(step, task[c].worker),
                    ![c].result = IF step.kind = "sleep" THEN NoResult
                                  ELSE [kind |-> step.kind, cls |-> step.cls,
                                        message |-> step.message]]
         /\ caller' = [caller EXCEPT ![c] = CallerAfter(@, step)]
    /\ UNCHANGED <<queue, retryVars>>

\* time.sleep(backoff_delay) returns in the job's thread.
PoolBackoffSleep(c) ==
    /\ task[c].pc = "sleep"
    /\ task' = [task EXCEPT ![c].pc = "call", ![c].attempt = @ + 1]
    /\ UNCHANGED <<caller, queue, retryVars>>

\* The deadline stopping the job whatever its position.
JobAfterTimeoutStopped(t) == [t EXCEPT !.pc = "cancelled", !.worker = 0]

\* The job of a handler whose deadline passed: Future.cancel() succeeds only
\* on a job that no thread has taken; a job in a thread is left as it is.
JobAfterTimeout(t) == IF t.pc = "queued" THEN [t EXCEPT !.pc = "cancelled"] ELSE t

\* REQUEST_TIMEOUT elapses: wait_for cancels the awaited future and raises
\* TimeoutError in the handler.  Cancelling reaches the executor's future,
\* which can be cancelled only while no thread has taken the job.
Timeout(c) ==
    /\ caller[c].st = "awaiting"
    /\ Cardinality(TimedOut) < MaxTimeouts
    /\ caller' = [caller EXCEPT ![c].st = "timeout"]
    /\ task' = [task EXCEPT ![c] = JobAfterTimeout(@)]
    /\ UNCHANGED <<queue, retryVars>>

NextPool ==
    \/ \E c \in Requests : Submit(c)
    \/ \E c \in Requests : StartWork(c)
    \/ \E c \in Requests, o \in PoolOutcomes : PoolProviderCall(c, o)
    \/ \E c \in Requests : PoolBackoffSleep(c)
    \/ \E c \in Requests : Timeout(c)

SpecPool == InitPool /\ [][NextPool]_vars

\* The job of request c is inside a provider call or a backoff sleep.
InLoop(c) == task[c].pc \in {"call", "sleep"}

\* The step taken is one of the retry loop of request c, or leaves its job
\* alone: a provider call that ends in a sleep or in the function's end, or
\* a sleep that ends in the next attempt.
LoopStepOrNone(c) ==
    \/ task'[c] = task[c]
    \/ /\ task[c].pc = "call"
       /\ task'[c].pc \in {"sleep", "done"}
       /\ task'[c].attempt = task[c].attempt
       /\ task'[c].pc = "sleep" => task'[c].worker = task[c].worker
    \/ /\ task[c].pc = "sleep"
       /\ task'[c].pc = "call"
       /\ task'[c].attempt = task[c].attempt + 1
       /\ task'[c].worker = task[c].worker

\* An abandoned job still in its loop holds its thread and can go on.
AbandonedJobGoesOn ==
    \A c \in Requests :
        (caller[c].st = "timeout" /\ InLoop(c)) =>
            /\ task[c].worker \in 1..max_workers
            /\ task[c].pc = "call" => ENABLED (\E o \in PoolOutcomes : PoolProviderCall(c, o))
            /\ task[c].pc = "sleep" => ENABLED PoolBackoffSleep(c)

\* What the deadline does and what follows it, step by step.
AbandonedJobSteps ==
    \A c \in Requests :
        \* the deadline gives the caller a Timeout and leaves a job that is
        \* in a thread, and the thread, as they are
        /\ (caller[c].st = "awaiting" /\ caller'[c].st = "timeout" /\ InLoop(c))
              => task'[c] = task[c]
        \* afterwards the job takes the steps of its loop only, and gives
        \* its thread back only at the loop's end
        /\ (caller[c].st = "timeout" /\ InLoop(c)) =>
              /\ LoopStepOrNone(c)
              /\ task'[c].worker = 0 => task'[c].pc = "done"
        \* its outcome is delivered to nobody
        /\ caller[c].st = "timeout" => caller'[c] = caller[c]
        /\ \A d \in Requests :
              (caller'[d] # caller[d] /\ caller'[d].st = "delivered")
                 => (caller[d].st = "awaiting" /\ caller'[d].got = task'[d].result)

\* C11: when the deadline expires while the call runs on a worker, the caller
\* gets a Timeout and the worker is not cancelled: it stays occupied, goes on
\* with the call's remaining provider calls and sleeps until the retry loop
\* ends, only then becomes free, and the outcome is never delivered.
C11_TimeoutLeavesWorkerRunning ==
    /\ []AbandonedJobGoesOn
    /\ [][AbandonedJobSteps]_vars

\* An abandoned job that failed once, slept, and is in its second attempt,
\* still in its thread, while its caller holds a Timeout and no outcome.
C11_Witness ==
    \E c \in Requests :
        /\ caller[c].st = "timeout"
        /\ caller[c].got = NoResult
        /\ task[c].pc = "call"
        /\ task[c].attempt = 1
        /\ task[c].worker \in 1..max_workers

\* Never more than max_workers jobs in their loop, each in a thread of its
\* own, and no thread held by a job outside its loop.
OneWorkerPerRunningCall ==
    /\ Cardinality(Busy) <= max_workers
    /\ \A c \in Requests :
          IF InLoop(c) THEN task[c].worker \in 1..max_workers
          ELSE task[c].worker = 0
    /\ \A c, d \in Busy : c # d => task[c].worker # task[d].worker
    /\ \A c \in Requests :
          task[c].pc = "queued" => \E i \in 1..Len(queue) : queue[i] = c

\* How a job gets and keeps its thread, step by step.
WorkerHeldThroughout ==
    \A c \in Requests :
        \* the thread is the same one from the first attempt to the end,
        \* sleeps included
        /\ (InLoop(c) /\ task'[c].pc \in {"call", "sleep"})
              => task'[c].worker = task[c].worker
        \* a job enters its first attempt from the queue, and only into a
        \* thread that no job was holding
        /\ (~InLoop(c) /\ task'[c].pc \in {"call", "sleep"}) =>
              /\ task[c].pc = "queued"
              /\ task'[c].pc = "call"
              /\ task'[c].attempt = 0
              /\ Cardinality(Busy) < max_workers
              /\ task'[c].worker \in FreeWorkers
        \* a call submitted while every thread is held waits in the queue
        /\ (task[c].pc = "new" /\ task'[c].pc # "new") =>
              /\ task'[c].pc = "queued"
              /\ task'[c].worker = 0

\* C12: under any interleaving at most max_workers = 4 calls are inside a
\* provider call or a backoff sleep at once; each holds exactly one worker
\* from its first attempt to its final outcome, sleeps included; a call
\* submitted while all workers are busy waits in the queue and starts only
\* after a worker is released.
C12_BoundedPoolOneWorkerEach ==
    /\ []OneWorkerPerRunningCall
    /\ [](\A c \in Requests :
            (task[c].pc = "queued" /\ Cardinality(Busy) = max_workers)
               => ~ENABLED StartWork(c))
    /\ [][WorkerHeldThroughout]_vars

\* All four threads held, one of them by a sleeping job, and a fifth call
\* waiting in the queue.
C12_Witness ==
    /\ Cardinality(Busy) = max_workers
    /\ \E c \in Busy : task[c].pc = "sleep"
    /\ \E c \in Requests : task[c].pc = "queued"

====
